---- MODULE Spec2Model ----
(***************************************************************************)
(* Model of src/main.go: the workout statistics of three training kinds    *)
(* (Running, Walking, Swimming), the report assembled by ReadData, and the *)
(* fixed sequence of three reports that main prints.                       *)
(*                                                                         *)
(* Numbers.  A Go float64 is modelled as an exact non-negative rational    *)
(* n/d over arbitrary-size naturals, extended with +Inf and NaN, which     *)
(* division by zero produces.  The rounding of float64 (a relative error   *)
(* of 2^-53 per operation) is abstracted away; everything else (operand    *)
(* order, the special values, the two-decimal rendering of %.2f) follows   *)
(* the code.  All inputs are non-negative, as the data model requires, so  *)
(* no negative value and no negative zero arises.  A time.Duration is      *)
(* counted in whole minutes, the unit main builds its durations from.      *)
(***************************************************************************)
EXTENDS Integers, Sequences, FiniteSets, TLC

(***************************************************************************)
(* Arbitrary-size naturals: little-endian sequences of limbs in            *)
(* 0..Base-1 without leading zero limbs; <<>> is 0.  The arithmetic is     *)
(* written as functions, which are applied to values.                      *)
(***************************************************************************)
Base == 100 * 100
Big  == Seq(Nat)

BFromNat[i \in Nat] == IF i = 0 THEN <<>> ELSE <<i % Base>> \o BFromNat[i \div Base]

BNorm[a \in Seq(Nat)] ==
  IF a = <<>> THEN <<>>
  ELSE IF a[Len(a)] = 0 THEN BNorm[SubSeq(a, 1, Len(a) - 1)]
  ELSE a

BAddC[a \in Big, b \in Big, c \in Nat] ==
  IF a = <<>> /\ b = <<>> THEN (IF c = 0 THEN <<>> ELSE <<c>>)
  ELSE LET x == IF a = <<>> THEN 0 ELSE Head(a)
           y == IF b = <<>> THEN 0 ELSE Head(b)
           s == x + y + c
       IN  <<s % Base>> \o BAddC[IF a = <<>> THEN <<>> ELSE Tail(a),
                                 IF b = <<>> THEN <<>> ELSE Tail(b),
                                 s \div Base]

BAdd[a \in Big, b \in Big] == BAddC[a, b, 0]

BSubC[a \in Big, b \in Big, c \in Nat] ==
  IF a = <<>> THEN <<>>
  ELSE LET y == IF b = <<>> THEN 0 ELSE Head(b)
           s == Head(a) - y - c
       IN  <<s % Base>> \o BSubC[Tail(a),
                                 IF b = <<>> THEN <<>> ELSE Tail(b),
                                 IF s < 0 THEN 1 ELSE 0]

\* a - b, for a >= b
BSub[a \in Big, b \in Big] == BNorm[BSubC[a, b, 0]]

BMulSmallC[a \in Big, m \in Nat, c \in Nat] ==
  IF a = <<>> THEN (IF c = 0 THEN <<>> ELSE <<c>>)
  ELSE LET s == Head(a) * m + c
       IN  <<s % Base>> \o BMulSmallC[Tail(a), m, s \div Base]

\* a * m, for a limb m
BMulSmall[a \in Big, m \in Nat] == IF m = 0 THEN <<>> ELSE BMulSmallC[a, m, 0]

\* a * Base
BShift[a \in Big] == IF a = <<>> THEN <<>> ELSE <<0>> \o a

BMul[a \in Big, b \in Big] ==
  IF a = <<>> \/ b = <<>> THEN <<>>
  ELSE BAdd[BMulSmall[b, Head(a)], BShift[BMul[Tail(a), b]]]

BCmpAt[a \in Big, b \in Big, i \in Nat] ==
  IF i = 0 THEN 0
  ELSE IF a[i] < b[i] THEN -1
  ELSE IF a[i] > b[i] THEN 1
  ELSE BCmpAt[a, b, i - 1]

\* -1, 0 or 1 as a < b, a = b or a > b
BCmp[a \in Big, b \in Big] ==
  IF Len(a) < Len(b) THEN -1
  ELSE IF Len(a) > Len(b) THEN 1
  ELSE BCmpAt[a, b, Len(a)]

\* the quotient q and remainder r of a by d # 0, by binary long division
\* a quotient with its remainder
QuoRem == [q : Big, r : Big]

\* one bit of the quotient: from h, the division by 2 * d, to that by d
BDivStep[h \in QuoRem, d \in Big] ==
  IF BCmp[h.r, d] < 0 THEN [q |-> BAdd[h.q, h.q], r |-> h.r]
  ELSE [q |-> BAddC[h.q, h.q, 1], r |-> BSub[h.r, d]]

BDivMod[a \in Big, d \in Big] ==
  IF BCmp[a, d] < 0 THEN [q |-> <<>>, r |-> a]
  ELSE BDivStep[BDivMod[a, BAdd[d, d]], d]

BIsOdd[a \in Big] == a # <<>> /\ Head(a) % 2 = 1

(***************************************************************************)
(* float64 values and the operators of Go the program uses on them.        *)
(***************************************************************************)
Fin(n, d) == [k |-> "fin", n |-> n, d |-> d]
PosInf    == [k |-> "inf"]
NaN       == [k |-> "nan"]
Float64   == [k : {"fin"}, n : Big, d : Big] \cup {PosInf, NaN}

\* float64(i) for an int i >= 0
FInt[i \in Nat] == Fin(BFromNat[i], <<1>>)

\* the decimal constant n/d
Dec[n \in Nat, d \in Nat] == Fin(BFromNat[n], BFromNat[d])

FIsZero[x \in Float64] == x.k = "fin" /\ x.n = <<>>

\* x + y
FAdd[x \in Float64, y \in Float64] ==
  IF x.k = "nan" \/ y.k = "nan" THEN NaN
  ELSE IF x.k = "inf" \/ y.k = "inf" THEN PosInf
  ELSE Fin(BAdd[BMul[x.n, y.d], BMul[y.n, x.d]], BMul[x.d, y.d])

\* x * y
FMul[x \in Float64, y \in Float64] ==
  IF x.k = "nan" \/ y.k = "nan" THEN NaN
  ELSE IF x.k = "inf" THEN (IF FIsZero[y] THEN NaN ELSE PosInf)
  ELSE IF y.k = "inf" THEN (IF FIsZero[x] THEN NaN ELSE PosInf)
  ELSE Fin(BMul[x.n, y.n], BMul[x.d, y.d])

\* x / y
FDiv[x \in Float64, y \in Float64] ==
  IF x.k = "nan" \/ y.k = "nan" THEN NaN
  ELSE IF x.k = "inf" THEN (IF y.k = "inf" THEN NaN ELSE PosInf)
  ELSE IF y.k = "inf" THEN FInt[0]
  ELSE IF FIsZero[y] THEN (IF FIsZero[x] THEN NaN ELSE PosInf)
  ELSE Fin(BMul[x.n, y.d], BMul[x.d, y.n])

\* x == y
FEq[x \in Float64, y \in Float64] ==
  IF x.k = "nan" \/ y.k = "nan" THEN FALSE
  ELSE IF x.k = "inf" \/ y.k = "inf" THEN x.k = y.k
  ELSE BMul[x.n, y.d] = BMul[y.n, x.d]

\* math.Pow(x, 2)
Pow2[x \in Float64] == FMul[x, x]

(***************************************************************************)
(* The time package: a Duration is a number of minutes.                    *)
(***************************************************************************)
\* Duration.Hours(): float64(d / Hour) + float64(d % Hour) / (one hour)
Hours(d) == FAdd[FInt[d \div 60], FDiv[FInt[d % 60], FInt[60]]]

\* Duration.Minutes()
Minutes(d) == FInt[d]

(***************************************************************************)
(* Constants of the program.                                               *)
(***************************************************************************)
MInKm      == 1000
MinInHours == 60
LenStep    == Dec[65, 100]
CmInM      == 100

CaloriesMeanSpeedMultiplier == 18
CaloriesMeanSpeedShift      == Dec[179, 100]

CaloriesWeightMultiplier      == Dec[35, 1000]
CaloriesSpeedHeightMultiplier == Dec[29, 1000]
KmHInMsec                     == Dec[278, 1000]

SwimmingLenStep                  == Dec[138, 100]
SwimmingCaloriesMeanSpeedShift   == Dec[11, 10]
SwimmingCaloriesWeightMultiplier == 2

(***************************************************************************)
(* Training: the fields TrainingType, Action, LenStep, Duration, Weight.   *)
(* A variant is a record with the field variant ("Running", "Walking",     *)
(* "Swimming"), the embedded Training and the variant's own fields.        *)
(***************************************************************************)
\* Training.distance measuring whole metres only
Training_distance_WholeMeters(t) ==
  LET m == FMul[FInt[t.Action], t.LenStep]
  IN  FDiv[Fin(BDivMod[m.n, m.d].q, <<1>>), FInt[MInKm]]

\* Training.distance
Training_distance(t) ==
  FDiv[FMul[FInt[t.Action], t.LenStep], FInt[MInKm]]

\* Training.meanSpeed without its guard
Training_meanSpeed_NoGuard(t) ==
  FDiv[Training_distance(t), Hours(t.Duration)]

\* Training.meanSpeed
Training_meanSpeed(t) ==
  IF FEq[Hours(t.Duration), FInt[0]] THEN FInt[0]
  ELSE FDiv[Training_distance(t), Hours(t.Duration)]

\* Training.Calories
Training_Calories(t) == FInt[0]

\* Training.TrainingInfo
Training_TrainingInfo(t) ==
  [TrainingType |-> t.TrainingType,
   Duration     |-> t.Duration,
   Distance     |-> Training_distance(t),
   Speed        |-> Training_meanSpeed(t),
   Calories     |-> Training_Calories(t)]

\* Running.Calories without the conversion of hours to minutes
Running_Calories_NoMinutes(r) ==
  LET speed    == Training_meanSpeed(r.Training)
      duration == Hours(r.Training.Duration)
  IN  FMul[FDiv[FMul[FAdd[FMul[FInt[CaloriesMeanSpeedMultiplier], speed],
                          CaloriesMeanSpeedShift],
                     r.Training.Weight],
                FInt[MInKm]],
           duration]

\* Running.Calories
Running_Calories(r) ==
  LET speed    == Training_meanSpeed(r.Training)
      duration == Hours(r.Training.Duration)
  IN  FMul[FMul[FDiv[FMul[FAdd[FMul[FInt[CaloriesMeanSpeedMultiplier], speed],
                               CaloriesMeanSpeedShift],
                          r.Training.Weight],
                     FInt[MInKm]],
                duration],
           FInt[MinInHours]]

\* Running.TrainingInfo filling in Running's own Calories
Running_TrainingInfo_OwnCalories(r) ==
  [Training_TrainingInfo(r.Training) EXCEPT !.Calories = Running_Calories(r)]

\* Running.TrainingInfo
Running_TrainingInfo(r) == Training_TrainingInfo(r.Training)

\* Walking.Calories taking the height in centimetres
Walking_Calories_HeightCm(w) ==
  LET speedMinSec == FMul[Training_meanSpeed(w.Training), KmHInMsec]
      duration    == Hours(w.Training.Duration)
      height      == w.Height
  IN  FMul[FMul[FAdd[FMul[CaloriesWeightMultiplier, w.Training.Weight],
                     FMul[FMul[FDiv[Pow2[speedMinSec], height],
                               CaloriesSpeedHeightMultiplier],
                          w.Training.Weight]],
                duration],
           FInt[MinInHours]]

\* Walking.Calories
Walking_Calories(w) ==
  LET speedMinSec == FMul[Training_meanSpeed(w.Training), KmHInMsec]
      duration    == Hours(w.Training.Duration)
      height      == FDiv[w.Height, FInt[CmInM]]
  IN  FMul[FMul[FAdd[FMul[CaloriesWeightMultiplier, w.Training.Weight],
                     FMul[FMul[FDiv[Pow2[speedMinSec], height],
                               CaloriesSpeedHeightMultiplier],
                          w.Training.Weight]],
                duration],
           FInt[MinInHours]]

\* Walking.TrainingInfo
Walking_TrainingInfo(w) == Training_TrainingInfo(w.Training)

\* Swimming.meanSpeed without its guard
Swimming_meanSpeed_NoGuard(s) ==
  FDiv[FDiv[FInt[s.LengthPool * s.CountPool], FInt[MInKm]],
       Hours(s.Training.Duration)]

\* Swimming.meanSpeed
Swimming_meanSpeed(s) ==
  LET duration == Hours(s.Training.Duration)
  IN  IF FEq[duration, FInt[0]] THEN FInt[0]
      ELSE FDiv[FDiv[FInt[s.LengthPool * s.CountPool], FInt[MInKm]], duration]

\* Swimming.Calories on the speed of the embedded Training
Swimming_Calories_BaseSpeed(s) ==
  LET speed    == Training_meanSpeed(s.Training)
      duration == Hours(s.Training.Duration)
  IN  FMul[FMul[FMul[FAdd[speed, SwimmingCaloriesMeanSpeedShift],
                     FInt[SwimmingCaloriesWeightMultiplier]],
                s.Training.Weight],
           duration]

\* Swimming.Calories
Swimming_Calories(s) ==
  LET speed    == Swimming_meanSpeed(s)
      duration == Hours(s.Training.Duration)
  IN  FMul[FMul[FMul[FAdd[speed, SwimmingCaloriesMeanSpeedShift],
                     FInt[SwimmingCaloriesWeightMultiplier]],
                s.Training.Weight],
           duration]

\* Swimming.TrainingInfo leaving the speed of the embedded Training
Swimming_TrainingInfo_BaseSpeed(s) == Training_TrainingInfo(s.Training)

\* Swimming.TrainingInfo
Swimming_TrainingInfo(s) ==
  LET trainingInfo == Training_TrainingInfo(s.Training)
  IN  [trainingInfo EXCEPT !.Speed = Swimming_meanSpeed(s)]

(***************************************************************************)
(* Method sets: distance is promoted from the embedded Training by every   *)
(* variant, meanSpeed by Running and Walking; Calories and TrainingInfo    *)
(* are the methods of the interface CaloriesCalculator.                    *)
(***************************************************************************)
distance(v) == Training_distance(v.Training)

meanSpeed(v) ==
  IF v.variant = "Swimming" THEN Swimming_meanSpeed(v)
  ELSE Training_meanSpeed(v.Training)

Calories(v) ==
  CASE v.variant = "Running"  -> Running_Calories(v)
    [] v.variant = "Walking"  -> Walking_Calories(v)
    [] v.variant = "Swimming" -> Swimming_Calories(v)

TrainingInfo(v) ==
  CASE v.variant = "Running"  -> Running_TrainingInfo(v)
    [] v.variant = "Walking"  -> Walking_TrainingInfo(v)
    [] v.variant = "Swimming" -> Swimming_TrainingInfo(v)

(***************************************************************************)
(* Rendering.  %.2f prints the value rounded to the nearest hundredth,     *)
(* ties to even, and the special values by name; the rendered number is    *)
(* kept as its count of hundredths.  %v prints a whole float64 as the      *)
(* integer it is.  The report is the record of its five lines, each named  *)
(* by its label: "Tip trenirovki: %s", "Dlitelnost: %v min",               *)
(* "Distantsiya: %.2f km.", "Sr. skorost: %.2f km/ch",                     *)
(* "Potracheno kkal: %.2f".                                                *)
(***************************************************************************)
\* the quotient qr.q of a division by d, rounded to nearest, ties to even
RoundHalfEven[qr \in QuoRem, d \in Big] ==
  LET c  == BCmp[BAdd[qr.r, qr.r], d]
      up == c > 0 \/ (c = 0 /\ BIsOdd[qr.q])
  IN  IF up THEN BAdd[qr.q, <<1>>] ELSE qr.q

Fmt2f[x \in Float64] ==
  IF x.k = "nan" THEN [k |-> "NaN"]
  ELSE IF x.k = "inf" THEN [k |-> "+Inf"]
  ELSE [k |-> "fixed2",
        hundredths |-> RoundHalfEven[BDivMod[BMulSmall[x.n, 100], x.d], x.d]]

FmtV[x \in Float64] == BDivMod[x.n, x.d].q

\* InfoMessage.String
InfoMessage_String(i) ==
  [TipTrenirovki  |-> i.TrainingType,
   DlitelnostMin  |-> FmtV[Minutes(i.Duration)],
   DistantsiyaKm  |-> Fmt2f[i.Distance],
   SrSkorostKmCh  |-> Fmt2f[i.Speed],
   PotrachenoKkal |-> Fmt2f[i.Calories]]

\* ReadData's InfoMessage without the calories put in
ReadData_info_NoOverwrite(training) == TrainingInfo(training)

\* the InfoMessage that ReadData hands to fmt.Sprint
ReadData_info(training) ==
  LET calories == Calories(training)
      info     == TrainingInfo(training)
  IN  [info EXCEPT !.Calories = calories]

\* ReadData
ReadData(training) == InfoMessage_String(ReadData_info(training))

(***************************************************************************)
(* The three sessions main builds.                                         *)
(***************************************************************************)
swimming ==
  [variant    |-> "Swimming",
   Training   |-> [TrainingType |-> "Plavanie",
                   Action       |-> 2000,
                   LenStep      |-> SwimmingLenStep,
                   Duration     |-> 90,
                   Weight       |-> FInt[85]],
   LengthPool |-> 50,
   CountPool  |-> 5]

walking ==
  [variant  |-> "Walking",
   Training |-> [TrainingType |-> "Khodba",
                 Action       |-> 20000,
                 LenStep      |-> LenStep,
                 Duration     |-> 3 * 60 + 45,
                 Weight       |-> FInt[85]],
   Height   |-> FInt[185]]

running ==
  [variant  |-> "Running",
   Training |-> [TrainingType |-> "Beg",
                 Action       |-> 5000,
                 LenStep      |-> LenStep,
                 Duration     |-> 30,
                 Weight       |-> FInt[85]]]

(***************************************************************************)
(* Bounded inputs for the calls of the program's functions on sessions     *)
(* other than the three of main.                                           *)
(***************************************************************************)
MaxAction    == 2
MaxDuration  == 2
MaxCountPool == 2

TrainingTypes == {"Khodba", "Beg"}
Actions       == 0..MaxAction
LenSteps      == {LenStep, SwimmingLenStep}
Durations     == {45 * m : m \in 0..MaxDuration}
Weights       == {FInt[85], Dec[605, 10]}
Heights       == {FInt[0], FInt[185]}
LengthPools   == {0, 25, 50}
CountPools    == 0..MaxCountPool

Trainings ==
  [TrainingType : TrainingTypes, Action : Actions, LenStep : LenSteps,
   Duration : Durations, Weight : Weights]

Sessions ==
  {swimming, walking, running}
    \cup [variant : {"Running"}, Training : Trainings]
    \cup [variant : {"Walking"}, Training : Trainings, Height : Heights]
    \cup [variant : {"Swimming"}, Training : Trainings,
          LengthPool : LengthPools, CountPool : CountPools]

(***************************************************************************)
(* State.  pc is the position in main ("swimming", "walking", "running",   *)
(* "exit") or that of a single call of one function on one session         *)
(* ("call", "return"); training is the session at hand, called the         *)
(* function last called on it and ret what it returned; info is the        *)
(* InfoMessage ReadData rendered last; stdout is the sequence of reports   *)
(* printed.                                                                *)
(***************************************************************************)
VARIABLES pc, training, called, ret, info, stdout

vars == <<pc, training, called, ret, info, stdout>>

NoSession == [variant |-> "none"]
NoValue   == [k |-> "none"]

Init ==
  /\ called = "none"
  /\ ret = NoValue
  /\ info = NoValue
  /\ stdout = <<>>
  /\ \/ pc = "swimming" /\ training = NoSession
     \/ pc = "call" /\ training \in Sessions

\* swimming := Swimming{...}; fmt.Println(ReadData(swimming))
MainSwimming ==
  /\ pc = "swimming"
  /\ training' = swimming
  /\ called' = "ReadData"
  /\ info' = ReadData_info(swimming)
  /\ ret' = ReadData(swimming)
  /\ stdout' = Append(stdout, ReadData(swimming))
  /\ pc' = "walking"

\* the second step of main without its Println
MainWalking_NoPrint ==
  /\ pc = "walking"
  /\ training' = walking
  /\ pc' = "running"
  /\ UNCHANGED <<called, ret, info, stdout>>

\* walking := Walking{...}; fmt.Println(ReadData(walking))
MainWalking ==
  /\ pc = "walking"
  /\ training' = walking
  /\ called' = "ReadData"
  /\ info' = ReadData_info(walking)
  /\ ret' = ReadData(walking)
  /\ stdout' = Append(stdout, ReadData(walking))
  /\ pc' = "running"

\* running := Running{...}; fmt.Println(ReadData(running)); return
MainRunning ==
  /\ pc = "running"
  /\ training' = running
  /\ called' = "ReadData"
  /\ info' = ReadData_info(running)
  /\ ret' = ReadData(running)
  /\ stdout' = Append(stdout, ReadData(running))
  /\ pc' = "exit"

\* training.distance()
CallDistance ==
  /\ pc = "call"
  /\ called' = "distance"
  /\ ret' = distance(training)
  /\ pc' = "return"
  /\ UNCHANGED <<training, info, stdout>>

\* training.meanSpeed()
CallMeanSpeed ==
  /\ pc = "call"
  /\ called' = "meanSpeed"
  /\ ret' = meanSpeed(training)
  /\ pc' = "return"
  /\ UNCHANGED <<training, info, stdout>>

\* training.Calories()
CallCalories ==
  /\ pc = "call"
  /\ called' = "Calories"
  /\ ret' = Calories(training)
  /\ pc' = "return"
  /\ UNCHANGED <<training, info, stdout>>

\* training.TrainingInfo()
CallTrainingInfo ==
  /\ pc = "call"
  /\ called' = "TrainingInfo"
  /\ ret' = TrainingInfo(training)
  /\ pc' = "return"
  /\ UNCHANGED <<training, info, stdout>>

\* ReadData(training)
CallReadData ==
  /\ pc = "call"
  /\ called' = "ReadData"
  /\ info' = ReadData_info(training)
  /\ ret' = ReadData(training)
  /\ pc' = "return"
  /\ UNCHANGED <<training, stdout>>

Next ==
  \/ MainSwimming
  \/ MainWalking
  \/ MainRunning
  \/ CallDistance
  \/ CallMeanSpeed
  \/ CallCalories
  \/ CallTrainingInfo
  \/ CallReadData

Spec == Init /\ [][Next]_vars

\* main is straight-line code on one goroutine that nothing blocks: a
\* statement that can run does run
FairSpec == Spec /\ WF_vars(MainSwimming \/ MainWalking \/ MainRunning)

(***************************************************************************)
(* Properties.                                                             *)
(***************************************************************************)
\* the same float64 value (NaN included)
FSame(x, y) == x.k = y.k /\ (x.k = "fin" => FEq[x, y])

\* the rendering of h hundredths
Fixed2(h) == [k |-> "fixed2", hundredths |-> BFromNat[h]]

\* the duration of a session in hours, as a fraction
DurationHours(v) == Dec[v.Training.Duration, 60]

\* Action * LenStep / 1000
StrokeDistance(v) ==
  FDiv[FMul[FInt[v.Training.Action], v.Training.LenStep], FInt[1000]]

\* C1: the InfoMessage ReadData renders holds the variant's own Calories()
\* result, unchanged, and the other four fields of the variant's
\* TrainingInfo(); the report returned is the rendering of that InfoMessage.
C1_ReadDataReport ==
  called = "ReadData" =>
    /\ info.Calories = Calories(training)
    /\ info.TrainingType = TrainingInfo(training).TrainingType
    /\ info.Duration = TrainingInfo(training).Duration
    /\ info.Distance = TrainingInfo(training).Distance
    /\ info.Speed = TrainingInfo(training).Speed
    /\ ret = InfoMessage_String(info)

C1_Witness ==
  /\ called = "ReadData"
  /\ training.variant = "Swimming"
  /\ pc = "return"
  /\ ~FIsZero[info.Calories]
  /\ FIsZero[TrainingInfo(training).Calories]

\* C2: meanSpeed() of a session of duration 0 is 0, for the meanSpeed of
\* Training (Running, Walking) and for that of Swimming; the result is the
\* number 0, not the NaN or Inf a division by zero would give.
C2_ZeroDurationZeroSpeed ==
  /\ (called = "meanSpeed" /\ training.Training.Duration = 0) => FIsZero[ret]
  /\ (called = "TrainingInfo" /\ training.Training.Duration = 0)
       => FIsZero[ret.Speed]

C2_Witness ==
  /\ called = "meanSpeed"
  /\ training.variant = "Running"
  /\ training.Training.Duration = 0
  /\ training.Training.Action > 0
  /\ FIsZero[ret]

\* C3: the Distance of a Swimming report is Action * LenStep / 1000 and is
\* the same for every LengthPool and CountPool; its Speed is
\* LengthPool * CountPool / 1000 / hours (0 for duration 0) and is the same
\* for every Action and LenStep.
C3_SwimmingReportFields ==
  (called = "TrainingInfo" /\ training.variant = "Swimming") =>
    /\ FEq[ret.Distance, StrokeDistance(training)]
    /\ \A lp \in LengthPools, cp \in CountPools :
         TrainingInfo([training EXCEPT !.LengthPool = lp,
                                       !.CountPool = cp]).Distance
           = ret.Distance
    /\ IF training.Training.Duration = 0
       THEN FIsZero[ret.Speed]
       ELSE FEq[ret.Speed,
                FDiv[FDiv[FInt[training.LengthPool * training.CountPool],
                          FInt[1000]],
                     DurationHours(training)]]
    /\ \A a \in Actions, l \in LenSteps :
         TrainingInfo([training EXCEPT !.Training.Action = a,
                                       !.Training.LenStep = l]).Speed
           = ret.Speed

C3_Witness ==
  /\ called = "TrainingInfo"
  /\ training.variant = "Swimming"
  /\ training.Training.Duration > 0
  /\ training.Training.Action > 0
  /\ training.LengthPool * training.CountPool > 0
  /\ ~FEq[ret.Speed, FDiv[ret.Distance, DurationHours(training)]]

\* C4 as claimed: on the swimming session of main, meanSpeed() is 1/6 and
\* the calories are rendered as 326.25.
C4_Original ==
  training = swimming =>
    /\ called = "meanSpeed" => FEq[ret, Dec[1, 6]]
    /\ called = "Calories" => Fmt2f[ret] = Fixed2(32625)
    /\ called = "ReadData" => ret.PotrachenoKkal = Fixed2(32625)

\* C4: on the swimming session of main, meanSpeed() is
\* (50*5)/1000/1.5 = 1/6 km/h, Calories() is (1/6 + 1.1) * 2 * 85 * 1.5 = 323
\* and the report renders the calories as 323.00.
C4_SwimmingExample ==
  training = swimming =>
    /\ called = "meanSpeed" =>
         /\ FEq[ret, Dec[1, 6]]
         /\ FEq[ret, FDiv[FDiv[FInt[50 * 5], FInt[1000]], Dec[15, 10]]]
    /\ called = "Calories" =>
         /\ FEq[ret, FMul[FMul[FMul[FAdd[Dec[1, 6], Dec[11, 10]], FInt[2]],
                               FInt[85]],
                          Dec[15, 10]]]
         /\ FEq[ret, FInt[323]]
    /\ called = "ReadData" => ret.PotrachenoKkal = Fixed2(32300)

C4_Witness ==
  /\ pc = "walking"
  /\ training = swimming
  /\ called = "ReadData"
  /\ stdout = <<ret>>
  /\ ret.PotrachenoKkal = Fixed2(32300)

\* (18 * speed + 1.79) * weight / 1000 * hours * 60
RunningFormula(speed, weight, hours) ==
  FMul[FMul[FDiv[FMul[FAdd[FMul[FInt[18], speed], Dec[179, 100]], weight],
                 FInt[1000]],
            hours],
       FInt[60]]

\* C5: on the running session of main, distance() is 3.25, meanSpeed() is
\* 6.5 and Calories() is (18*6.5 + 1.79) * 85 / 1000 * 0.5 * 60; for every
\* Running session Calories() is
\* (18 * meanSpeed() + 1.79) * Weight / 1000 * hours * 60 on the meanSpeed
\* of Training.
C5_Running ==
  /\ training = running =>
       /\ called = "distance" => FEq[ret, Dec[325, 100]]
       /\ called = "meanSpeed" => FEq[ret, Dec[65, 10]]
       /\ called = "Calories" =>
            FEq[ret, RunningFormula(Dec[65, 10], FInt[85], Dec[5, 10])]
  /\ (training.variant = "Running" /\ called = "Calories") =>
       FEq[ret, RunningFormula(Training_meanSpeed(training.Training),
                               training.Training.Weight,
                               DurationHours(training))]

C5_Witness ==
  /\ training = running
  /\ called = "Calories"
  /\ FEq[ret, Dec[3029145, 10000]]

\* (0.035 * weight + (speedMs^2 / heightM) * 0.029 * weight) * hours * 60
\* with speedMs = speed * 0.278 and heightM = heightCm / 100
WalkingFormula(speed, weight, heightCm, hours) ==
  LET speedMs == FMul[speed, Dec[278, 1000]]
      heightM == FDiv[heightCm, FInt[100]]
  IN  FMul[FMul[FAdd[FMul[Dec[35, 1000], weight],
                     FMul[FMul[FDiv[FMul[speedMs, speedMs], heightM],
                               Dec[29, 1000]],
                          weight]],
                hours],
           FInt[60]]

\* C6: on the walking session of main, distance() is 13, meanSpeed() is
\* 13/3.75 and Calories() is the walking formula on that speed, weight 85,
\* height 1.85 m and 3.75 hours; every Walking session's Calories() is the
\* walking formula on its own fields.
C6_Walking ==
  /\ training = walking =>
       /\ called = "distance" => FEq[ret, FInt[13]]
       /\ called = "meanSpeed" => FEq[ret, FDiv[FInt[13], Dec[375, 100]]]
       /\ called = "Calories" =>
            FEq[ret, WalkingFormula(FDiv[FInt[13], Dec[375, 100]], FInt[85],
                                    FInt[185], Dec[375, 100])]
  /\ (training.variant = "Walking" /\ called = "Calories") =>
       FSame(ret, WalkingFormula(Training_meanSpeed(training.Training),
                                 training.Training.Weight,
                                 training.Height,
                                 DurationHours(training)))

C6_Witness ==
  /\ training = walking
  /\ called = "Calories"
  /\ Fmt2f[ret] = Fixed2(94782)

\* C7: for a Running or Walking session, the session that differs only in
\* having twice the Action has exactly twice the distance().
C7_DistanceLinear ==
  (called = "distance" /\ training.variant \in {"Running", "Walking"}) =>
    FEq[distance([training EXCEPT !.Training.Action = 2 * @]),
        FMul[FInt[2], ret]]

C7_Witness ==
  /\ called = "distance"
  /\ training.variant = "Walking"
  /\ training.Training.Action = 1
  /\ ~FIsZero[ret]

\* the reports of main, in order
MainReports == <<ReadData(swimming), ReadData(walking), ReadData(running)>>

MainPrinted ==
  CASE pc = "swimming" -> 0
    [] pc = "walking"  -> 1
    [] pc = "running"  -> 2
    [] pc = "exit"     -> 3

\* a step taken in main leaves a position before the end for the next one
\* and prints exactly the report of the session passed
MainPrintsNext ==
  pc \in {"swimming", "walking", "running", "exit"} =>
    /\ pc # "exit"
    /\ MainPrinted' = MainPrinted + 1
    /\ stdout' = Append(stdout, MainReports[MainPrinted'])

\* C8: a run of main prints the report of its swimming session, then that
\* of its walking session, then that of its running session, each the
\* ReadData of the hard-coded session alone: at every position of main the
\* output is the reports of the sessions passed, every step of main prints
\* exactly the next report, after the third main has ended and takes no
\* further step, and a run started at the top of main reaches that end.
C8_MainRun ==
  /\ [](pc \in {"swimming", "walking", "running", "exit"}
          => stdout = SubSeq(MainReports, 1, MainPrinted))
  /\ [][MainPrintsNext]_vars
  /\ (pc = "swimming") ~> (pc = "exit")

C8_Witness ==
  /\ pc = "exit"
  /\ Len(stdout) = 3
  /\ stdout[1].TipTrenirovki = "Plavanie"
  /\ stdout[2].TipTrenirovki = "Khodba"
  /\ stdout[3].TipTrenirovki = "Beg"

\* C9: the InfoMessage a variant's own TrainingInfo() returns has Calories
\* 0, whatever the variant's Calories() returns.
C9_TrainingInfoCaloriesZero ==
  called = "TrainingInfo" => FIsZero[ret.Calories]

C9_Witness ==
  /\ called = "TrainingInfo"
  /\ training.variant = "Running"
  /\ ~FIsZero[Calories(training)]
  /\ FIsZero[ret.Calories]

\* C10: for a session of duration 0 (a Walking one with Height > 0),
\* ReadData returns a report with Speed 0 and Calories 0, rendered as
\* numbers, and with Distance still Action * LenStep / 1000.
C10_ZeroDurationReport ==
  (/\ called = "ReadData"
   /\ training.Training.Duration = 0
   /\ training.variant = "Walking" => ~FIsZero[training.Height]) =>
    /\ FIsZero[info.Speed]
    /\ FIsZero[info.Calories]
    /\ FEq[info.Distance, StrokeDistance(training)]
    /\ ret.SrSkorostKmCh = Fixed2(0)
    /\ ret.PotrachenoKkal = Fixed2(0)
    /\ ret.DistantsiyaKm = Fmt2f[StrokeDistance(training)]

C10_Witness ==
  /\ called = "ReadData"
  /\ training.variant = "Swimming"
  /\ training.Training.Duration = 0
  /\ training.Training.Action > 0
  /\ training.LengthPool * training.CountPool > 0
  /\ ~FIsZero[info.Distance]
  /\ ret.PotrachenoKkal = Fixed2(0)

====
